---- MODULE Spec2Model ----
(***************************************************************************)
(* Model of haku-nanpou/FileConverter (src/main.py): compress-then-encrypt *)
(* of one file into an output folder, its inverse, and the interactive     *)
(* menu loop that drives both.                                             *)
(*                                                                         *)
(* Text (file names, typed lines, passwords) is a sequence of one-char     *)
(* strings.  A path is a sequence of components.  The file system is a     *)
(* function from the existing paths to their entries.  File contents are   *)
(* terms: raw bytes, an LZMA stream of a content, a Fernet token of a      *)
(* content under a key (perfect-cryptography abstraction of the library    *)
(* primitives: a token opens only under the key that made it, an LZMA      *)
(* stream is recognised only if lzma.compress made it).                    *)
(***************************************************************************)
EXTENDS Integers, Sequences, FiniteSets, TLC

VARIABLES
    fs,             \* the file system: path -> entry
    last,           \* the last call of encrypt_file / decrypt_file
    nops,           \* number of calls made so far
    nm, nmOut, nmOp,            \* file-name functions: input, result, what ran
    pc, choice, input_file, output_folder, password  \* main(): position, locals

vars == <<fs, last, nops, nm, nmOut, nmOp,
          pc, choice, input_file, output_folder, password>>

(***************************************************************************)
(* Bounds                                                                  *)
(***************************************************************************)
MaxOps == 2
MaxPieces == 3

(***************************************************************************)
(* Text                                                                    *)
(***************************************************************************)
SUFFIX == <<".", "c", "o", "m", "p", "r", "e", "s", "s", "e", "d">>

RECURSIVE Replace(_, _, _)
\* str.replace(old, new): every non-overlapping occurrence, scanning left to
\* right, in one pass (old is never empty here).
Replace(s, old, new) ==
    IF Len(s) < Len(old) THEN s
    ELSE IF SubSeq(s, 1, Len(old)) = old
         THEN new \o Replace(SubSeq(s, Len(old) + 1, Len(s)), old, new)
         ELSE <<Head(s)>> \o Replace(Tail(s), old, new)

RECURSIVE ReplaceFirst(_, _, _)
\* str.replace(old, new, 1): the first occurrence only.
ReplaceFirst(s, old, new) ==
    IF Len(s) < Len(old) THEN s
    ELSE IF SubSeq(s, 1, Len(old)) = old
         THEN new \o SubSeq(s, Len(old) + 1, Len(s))
         ELSE <<Head(s)>> \o ReplaceFirst(Tail(s), old, new)

\* input_path.name + ".compressed"
EncryptName(name) == name \o SUFFIX

DecryptNameFirstOnly(name) == ReplaceFirst(name, SUFFIX, <<>>)
\* input_path.name.replace('.compressed', '')
DecryptName(name) == Replace(name, SUFFIX, <<>>)

(***************************************************************************)
(* File contents                                                           *)
(***************************************************************************)
DirEntry == [t |-> "dir"]
Raw(b) == [t |-> "raw", b |-> b]
\* lzma.compress(data, preset=6)
LzmaCompress(c) == [t |-> "xz", of |-> c]
\* a key that does not depend on the password
derive_key_fixed(pw) == [b64 |-> [sha256 |-> <<>>]]
\* base64.urlsafe_b64encode(hashlib.sha256(password.encode('utf-8')).digest())
derive_key_from_password(pw) == [b64 |-> [sha256 |-> pw]]
\* Fernet(key).encrypt(data); iv is the token's fresh randomness
FernetEncrypt(key, iv, c) == [t |-> "tok", key |-> key, iv |-> iv, of |-> c]
\* Fernet(key).decrypt(token) raises InvalidToken unless the token was made
\* under the same key
FernetValid(key, c) == c.t = "tok" /\ c.key = key
\* lzma.decompress(data) raises LZMAError unless data is an LZMA stream
LzmaValid(c) == c.t = "xz"
\* len(file_data) == 0
IsEmpty(c) == c.t = "raw" /\ c.b = <<>>

(***************************************************************************)
(* File system                                                             *)
(***************************************************************************)
Exists(f, p) == p \in DOMAIN f
IsDir(f, p) == Exists(f, p) /\ f[p].t = "dir"
IsFile(f, p) == Exists(f, p) /\ f[p].t # "dir"
Prefixes(p) == {SubSeq(p, 1, i) : i \in 1..Len(p)}
\* Path(p).name
Name(p) == IF p = <<>> THEN <<>> ELSE p[Len(p)]

\* os.makedirs(d, exist_ok=True): the error it raises, or "none"
MakedirsError(f, d) ==
    IF d = <<>> THEN "FileNotFoundError"
    ELSE IF IsFile(f, d) THEN "FileExistsError"
    ELSE IF \E q \in Prefixes(d) : IsFile(f, q) THEN "NotADirectoryError"
    ELSE "none"
Makedirs(f, d) ==
    [q \in DOMAIN f \cup Prefixes(d) |-> IF q \in DOMAIN f THEN f[q] ELSE DirEntry]

\* open(p, 'wb') in an existing directory: the error it raises, or "none"
OpenWriteError(f, p) ==
    IF Name(p) = <<>> \/ IsDir(f, p) THEN "IsADirectoryError" ELSE "none"
WriteFile(f, p, data) ==
    [q \in DOMAIN f \cup {p} |-> IF q = p THEN data ELSE f[q]]

Raised(err, f) == [result |-> err, path |-> <<>>, fs |-> f]
Returned(p, f) == [result |-> "ok", path |-> p, fs |-> f]

(***************************************************************************)
(* encrypt_file and decrypt_file: outcome and file system after the call   *)
(***************************************************************************)
EncryptOutput(input, folder) == folder \o <<EncryptName(Name(input))>>
DecryptOutput(input, folder) == folder \o <<DecryptName(Name(input))>>

\* encrypt_file that never overwrites: an occupied output path gets a new name
encrypt_file_keep_existing(f, input, folder, pw, iv) ==
    IF ~Exists(f, input) THEN Raised("FileNotFoundError", f)
    ELSE IF MakedirsError(f, folder) # "none"
         THEN Raised(MakedirsError(f, folder), f)
    ELSE LET f1  == Makedirs(f, folder)
             out == IF Exists(f1, EncryptOutput(input, folder))
                    THEN folder \o <<EncryptName(EncryptName(Name(input)))>>
                    ELSE EncryptOutput(input, folder)
         IN  IF IsDir(f1, input) THEN Raised("IsADirectoryError", f1)
             ELSE LET file_data == f1[input] IN
                  IF IsEmpty(file_data) THEN Raised("ZeroDivisionError", f1)
                  ELSE LET encrypted_data ==
                               FernetEncrypt(derive_key_from_password(pw), iv,
                                             LzmaCompress(file_data))
                       IN  IF OpenWriteError(f1, out) # "none"
                           THEN Raised(OpenWriteError(f1, out), f1)
                           ELSE Returned(out, WriteFile(f1, out, encrypted_data))

encrypt_file(f, input, folder, pw, iv) ==
    IF ~Exists(f, input) THEN Raised("FileNotFoundError", f)
    ELSE IF MakedirsError(f, folder) # "none"
         THEN Raised(MakedirsError(f, folder), f)
    ELSE LET f1  == Makedirs(f, folder)
             out == EncryptOutput(input, folder)
         IN  IF IsDir(f1, input) THEN Raised("IsADirectoryError", f1)
             ELSE LET file_data == f1[input] IN
                  \* the ratio printed after compression divides by len(file_data)
                  IF IsEmpty(file_data) THEN Raised("ZeroDivisionError", f1)
                  ELSE LET encrypted_data ==
                               FernetEncrypt(derive_key_from_password(pw), iv,
                                             LzmaCompress(file_data))
                       IN  IF OpenWriteError(f1, out) # "none"
                           THEN Raised(OpenWriteError(f1, out), f1)
                           ELSE Returned(out, WriteFile(f1, out, encrypted_data))

\* decrypt_file that creates the output folder before it looks for the input
decrypt_file_mkdir_first(f, input, folder, pw) ==
    IF MakedirsError(f, folder) # "none"
    THEN Raised(MakedirsError(f, folder), f)
    ELSE LET f1  == Makedirs(f, folder)
             out == DecryptOutput(input, folder)
         IN  IF ~Exists(f1, input) THEN Raised("FileNotFoundError", f1)
             ELSE IF IsDir(f1, input) THEN Raised("IsADirectoryError", f1)
             ELSE LET encrypted_data == f1[input] IN
                  IF ~FernetValid(derive_key_from_password(pw), encrypted_data)
                  THEN Raised("InvalidToken", f1)
                  ELSE LET compressed_data == encrypted_data.of IN
                       IF ~LzmaValid(compressed_data) THEN Raised("LZMAError", f1)
                       ELSE IF OpenWriteError(f1, out) # "none"
                            THEN Raised(OpenWriteError(f1, out), f1)
                            ELSE Returned(out, WriteFile(f1, out, compressed_data.of))

\* decrypt_file that opens its output file before it decrypts: a failure
\* after that leaves the file truncated
decrypt_file_open_early(f, input, folder, pw) ==
    IF ~Exists(f, input) THEN Raised("FileNotFoundError", f)
    ELSE IF MakedirsError(f, folder) # "none"
         THEN Raised(MakedirsError(f, folder), f)
    ELSE LET f1  == Makedirs(f, folder)
             out == DecryptOutput(input, folder)
         IN  IF IsDir(f1, input) THEN Raised("IsADirectoryError", f1)
             ELSE LET encrypted_data == f1[input] IN
                  IF OpenWriteError(f1, out) # "none"
                  THEN Raised(OpenWriteError(f1, out), f1)
                  ELSE LET f2 == WriteFile(f1, out, Raw(<<>>)) IN
                       IF ~FernetValid(derive_key_from_password(pw), encrypted_data)
                       THEN Raised("InvalidToken", f2)
                       ELSE LET compressed_data == encrypted_data.of IN
                            IF ~LzmaValid(compressed_data) THEN Raised("LZMAError", f2)
                            ELSE Returned(out, WriteFile(f2, out, compressed_data.of))

decrypt_file(f, input, folder, pw) ==
    IF ~Exists(f, input) THEN Raised("FileNotFoundError", f)
    ELSE IF MakedirsError(f, folder) # "none"
         THEN Raised(MakedirsError(f, folder), f)
    ELSE LET f1  == Makedirs(f, folder)
             out == DecryptOutput(input, folder)
         IN  IF IsDir(f1, input) THEN Raised("IsADirectoryError", f1)
             ELSE LET encrypted_data == f1[input] IN
                  IF ~FernetValid(derive_key_from_password(pw), encrypted_data)
                  THEN Raised("InvalidToken", f1)
                  ELSE LET compressed_data == encrypted_data.of IN
                       IF ~LzmaValid(compressed_data) THEN Raised("LZMAError", f1)
                       ELSE IF OpenWriteError(f1, out) # "none"
                            THEN Raised(OpenWriteError(f1, out), f1)
                            ELSE Returned(out, WriteFile(f1, out, compressed_data.of))

(***************************************************************************)
(* Inputs                                                                  *)
(***************************************************************************)
InDir == <<"i", "n">>
OutDir == <<"o", "u", "t">>
DeepDir == <<"d">>
SubDir == <<"s", "u", "b">>
GoneDir == <<"g">>
NameA == <<"a">>
NameZ == <<"z">>
PW1 == <<"p">>
PW2 == <<"q">>
Passwords == {PW1, PW2}
Nonces == {0, 1}
Folders == {<<InDir>>, <<OutDir, DeepDir>>, <<InDir, NameA>>}
MissingPaths == {<<InDir, NameZ>>, <<GoneDir, NameA>>}

\* Files a user may hold before the first call: plain files (one empty), a
\* file somebody encrypted earlier, and a token whose payload is not LZMA.
GoodBlob == FernetEncrypt(derive_key_from_password(PW1), 0, LzmaCompress(Raw(<<7>>)))
DriftBlob == FernetEncrypt(derive_key_from_password(PW1), 0, Raw(<<7>>))
InitPlain == {Raw(<<>>), Raw(<<1>>), GoodBlob}
InitBlob == {DriftBlob, GoodBlob}

InitFs(c1, c2, withBlob) ==
    LET dom == {<<InDir>>, <<InDir, SubDir>>, <<InDir, NameA>>}
                 \cup (IF withBlob THEN {<<InDir, EncryptName(NameA)>>} ELSE {})
    IN  [p \in dom |-> IF p = <<InDir, NameA>> THEN c1
                       ELSE IF p = <<InDir, EncryptName(NameA)>> THEN c2
                       ELSE DirEntry]

NoCall == [op |-> "none", input |-> <<>>, folder |-> <<>>, pw |-> <<>>,
           result |-> "none", path |-> <<>>, pre |-> <<>>]

Call(op, input, folder, pw, r, f) ==
    [op |-> op, input |-> input, folder |-> folder, pw |-> pw,
     result |-> r.result, path |-> r.path, pre |-> f]

NoFs == [p \in {} |-> DirEntry]
FsIdle == fs = NoFs /\ last = NoCall /\ nops = 0
NameIdle == nm = <<>> /\ nmOut = <<>> /\ nmOp = "off"
MainIdle == pc = "off" /\ choice = <<>> /\ input_file = <<>>
            /\ output_folder = <<>> /\ password = <<>>

(***************************************************************************)
(* Spec: a caller invoking encrypt_file / decrypt_file                     *)
(***************************************************************************)
Init ==
    /\ \E c1 \in InitPlain, c2 \in InitBlob, withBlob \in BOOLEAN :
           fs = InitFs(c1, c2, withBlob)
    /\ last = NoCall
    /\ nops = 0
    /\ NameIdle
    /\ MainIdle

Encrypt ==
    /\ nops < MaxOps
    /\ \E input \in DOMAIN fs \cup MissingPaths, folder \in Folders,
          pw \in Passwords, iv \in Nonces :
          LET r == encrypt_file(fs, input, folder, pw, iv) IN
          /\ fs' = r.fs
          /\ last' = Call("enc", input, folder, pw, r, fs)
    /\ nops' = nops + 1
    /\ UNCHANGED <<nm, nmOut, nmOp, pc, choice, input_file, output_folder, password>>

Decrypt ==
    /\ nops < MaxOps
    /\ \E input \in DOMAIN fs \cup MissingPaths, folder \in Folders,
          pw \in Passwords :
          LET r == decrypt_file(fs, input, folder, pw) IN
          /\ fs' = r.fs
          /\ last' = Call("dec", input, folder, pw, r, fs)
    /\ nops' = nops + 1
    /\ UNCHANGED <<nm, nmOut, nmOp, pc, choice, input_file, output_folder, password>>

Next == Encrypt \/ Decrypt

Spec == Init /\ [][Next]_vars

(***************************************************************************)
(* NameSpec: the two file-name functions on their own                      *)
(***************************************************************************)
Pieces == {<<"a">>, <<".", "b", "a", "k">>, SUFFIX,
           <<".", "c", "o", "m", "p">>, <<"r", "e", "s", "s", "e", "d">>}

RECURSIVE Concats(_)
Concats(k) ==
    IF k = 0 THEN {<<>>}
    ELSE LET shorter == Concats(k - 1)
         IN  shorter \cup {x \o p : x \in shorter, p \in Pieces}

BaseNames == Concats(MaxPieces) \ {<<>>}

NameInit ==
    /\ nm \in BaseNames
    /\ nmOut = <<>>
    /\ nmOp = "new"
    /\ FsIdle
    /\ MainIdle

\* encrypt_file names its output
NameEncrypt ==
    /\ nmOp = "new"
    /\ nmOut' = EncryptName(nm)
    /\ nmOp' = "enc"
    /\ UNCHANGED <<nm, fs, last, nops, pc, choice, input_file, output_folder, password>>

\* decrypt_file names its output, given the file as it is
NameDecrypt ==
    /\ nmOp = "new"
    /\ nmOut' = DecryptName(nm)
    /\ nmOp' = "dec"
    /\ UNCHANGED <<nm, fs, last, nops, pc, choice, input_file, output_folder, password>>

\* decrypt_file names its output, given the file encrypt_file named
NameDecryptEncrypted ==
    /\ nmOp = "enc"
    /\ nmOut' = DecryptName(nmOut)
    /\ nmOp' = "encdec"
    /\ UNCHANGED <<nm, fs, last, nops, pc, choice, input_file, output_folder, password>>

NameNext == NameEncrypt \/ NameDecrypt \/ NameDecryptEncrypted

NameSpec == NameInit /\ [][NameNext]_vars

(***************************************************************************)
(* MainSpec: main(), the interactive loop                                  *)
(***************************************************************************)
RECURSIVE LStrip(_)
LStrip(s) == IF s # <<>> /\ Head(s) = " " THEN LStrip(Tail(s)) ELSE s
RECURSIVE RStrip(_)
RStrip(s) ==
    IF s # <<>> /\ s[Len(s)] = " " THEN RStrip(SubSeq(s, 1, Len(s) - 1)) ELSE s
\* input(...).strip()
Strip(s) == RStrip(LStrip(s))

RECURSIVE SplitPath(_, _)
SplitPath(s, cur) ==
    LET done == IF cur = <<>> THEN <<>> ELSE <<cur>> IN
    IF s = <<>> THEN done
    ELSE IF Head(s) = "/" THEN done \o SplitPath(Tail(s), <<>>)
    ELSE SplitPath(Tail(s), Append(cur, Head(s)))
\* the path a typed string names: its components
ParsePath(text) == SplitPath(text, <<>>)

ChoiceLines == {<<"1">>, <<" ", "2">>, <<"3", " ">>, <<"9">>, <<>>}
PathLines == {InDir \o <<"/">> \o NameA,
              <<" ">> \o InDir \o <<"/">> \o EncryptName(NameA),
              InDir \o <<"/">> \o NameZ}
FolderLines == {InDir \o <<"/">>, OutDir \o <<"/">> \o DeepDir \o <<" ">>, <<>>}
PasswordLines == {PW1, PW2 \o <<" ">>}

MainInit ==
    /\ \E c1 \in {Raw(<<>>), Raw(<<1>>)} : fs = InitFs(c1, DriftBlob, TRUE)
    /\ last = NoCall
    /\ nops = 0
    /\ NameIdle
    /\ pc = "menu"
    /\ choice = <<>>
    /\ input_file = <<>>
    /\ output_folder = <<>>
    /\ password = <<>>

\* choice '1' or '2'
MenuChoose ==
    /\ pc = "menu"
    /\ nops < MaxOps
    /\ \E line \in ChoiceLines :
          /\ Strip(line) \in {<<"1">>, <<"2">>}
          /\ choice' = Strip(line)
    /\ pc' = "ask_input"
    /\ UNCHANGED <<fs, last, nops, nm, nmOut, nmOp, input_file, output_folder, password>>

\* choice '3'
MenuExit ==
    /\ pc = "menu"
    /\ \E line \in ChoiceLines :
          /\ Strip(line) = <<"3">>
          /\ choice' = Strip(line)
    /\ pc' = "exit"
    /\ UNCHANGED <<fs, last, nops, nm, nmOut, nmOp, input_file, output_folder, password>>

\* any other choice
MenuInvalid ==
    /\ pc = "menu"
    /\ \E line \in ChoiceLines :
          /\ Strip(line) \notin {<<"1">>, <<"2">>, <<"3">>}
          /\ choice' = Strip(line)
    /\ pc' = "menu"
    /\ UNCHANGED <<fs, last, nops, nm, nmOut, nmOp, input_file, output_folder, password>>

AskInput ==
    /\ pc = "ask_input"
    /\ \E line \in PathLines : input_file' = Strip(line)
    /\ pc' = "ask_folder"
    /\ UNCHANGED <<fs, last, nops, nm, nmOut, nmOp, choice, output_folder, password>>

AskFolder ==
    /\ pc = "ask_folder"
    /\ \E line \in FolderLines : output_folder' = Strip(line)
    /\ pc' = "ask_password"
    /\ UNCHANGED <<fs, last, nops, nm, nmOut, nmOp, choice, input_file, password>>

AskPassword ==
    /\ pc = "ask_password"
    /\ \E line \in PasswordLines : password' = Strip(line)
    /\ pc' = "call"
    /\ UNCHANGED <<fs, last, nops, nm, nmOut, nmOp, choice, input_file, output_folder>>

\* try: encrypt_file(...) except Exception: print
CallEncrypt ==
    /\ pc = "call"
    /\ choice = <<"1">>
    /\ \E iv \in Nonces :
          LET input  == ParsePath(input_file)
              folder == ParsePath(output_folder)
              r      == encrypt_file(fs, input, folder, password, iv)
          IN  /\ fs' = r.fs
              /\ last' = Call("enc", input, folder, password, r, fs)
    /\ nops' = nops + 1
    /\ pc' = "menu"
    /\ UNCHANGED <<nm, nmOut, nmOp, choice, input_file, output_folder, password>>

\* decrypt_file(...) outside any try: an error ends the loop
CallDecryptUncaught ==
    /\ pc = "call"
    /\ choice = <<"2">>
    /\ LET input  == ParsePath(input_file)
           folder == ParsePath(output_folder)
           r      == decrypt_file(fs, input, folder, password)
       IN  /\ fs' = r.fs
           /\ last' = Call("dec", input, folder, password, r, fs)
           /\ pc' = IF r.result = "ok" THEN "menu" ELSE "exit"
    /\ nops' = nops + 1
    /\ UNCHANGED <<nm, nmOut, nmOp, choice, input_file, output_folder, password>>

\* try: decrypt_file(...) except Exception: print
CallDecrypt ==
    /\ pc = "call"
    /\ choice = <<"2">>
    /\ LET input  == ParsePath(input_file)
           folder == ParsePath(output_folder)
           r      == decrypt_file(fs, input, folder, password)
       IN  /\ fs' = r.fs
           /\ last' = Call("dec", input, folder, password, r, fs)
    /\ nops' = nops + 1
    /\ pc' = "menu"
    /\ UNCHANGED <<nm, nmOut, nmOp, choice, input_file, output_folder, password>>

MainNext ==
    \/ MenuChoose \/ MenuExit \/ MenuInvalid
    \/ AskInput \/ AskFolder \/ AskPassword
    \/ CallEncrypt \/ CallDecrypt

MainSpec == MainInit /\ [][MainNext]_vars

(***************************************************************************)
(* Properties                                                              *)
(***************************************************************************)
\* the regular files of a file system, with their contents
FilesOf(f) == {<<p, f[p]>> : p \in {q \in DOMAIN f : IsFile(f, q)}}
\* a call was made in this step
Called == nops' = nops + 1
SameArgs(c, d) ==
    c.op = d.op /\ c.input = d.input /\ c.folder = d.folder /\ c.pw = d.pw
\* the output folder can be ensured and the output path is free for a file
EncryptTargetFree(f, input, folder) ==
    /\ MakedirsError(f, folder) = "none"
    /\ ~IsDir(f, EncryptOutput(input, folder))
DecryptTargetFree(f, input, folder) ==
    /\ MakedirsError(f, folder) = "none"
    /\ DecryptName(Name(input)) # <<>>
    /\ ~IsDir(f, DecryptOutput(input, folder))

\* C1: round trip.  encrypt_file on a regular file holding payload P (the
\* empty payload included) with password W succeeds, and decrypt_file on the
\* file it produced, with the same W, succeeds and writes exactly P.
C1_RoundTrip ==
    [][Called =>
        /\ (/\ last'.op = "enc"
            /\ IsFile(fs, last'.input)
            /\ EncryptTargetFree(fs, last'.input, last'.folder))
           => last'.result = "ok"
        /\ (/\ last.op = "enc" /\ last.result = "ok"
            /\ last'.op = "dec" /\ last'.input = last.path /\ last'.pw = last.pw
            /\ DecryptTargetFree(fs, last'.input, last'.folder))
           => /\ last'.result = "ok"
              /\ fs'[last'.path] = last.pre[last.input]]_vars

\* C2: neither call deletes or modifies its input: whatever the call did,
\* the entry at the input path is afterwards what it was before.
C2_InputUntouched ==
    (last.op # "none" /\ Exists(last.pre, last.input))
        => Exists(fs, last.input) /\ fs[last.input] = last.pre[last.input]

\* the characters of s that lie in no occurrence of '.compressed' in s
Occurrences(s) ==
    {i \in 1..(Len(s) - Len(SUFFIX) + 1) : SubSeq(s, i, i + Len(SUFFIX) - 1) = SUFFIX}
InOccurrence(s, i) == \E j \in Occurrences(s) : j <= i /\ i < j + Len(SUFFIX)
RECURSIVE OutsideFrom(_, _)
OutsideFrom(s, i) ==
    IF i > Len(s) THEN <<>>
    ELSE (IF InOccurrence(s, i) THEN <<>> ELSE <<s[i]>>) \o OutsideFrom(s, i + 1)
FirstOccurrence(s) == CHOOSE i \in Occurrences(s) : \A j \in Occurrences(s) : i <= j

C4_MissingInput ==
    (last.op # "none" /\ ~Exists(last.pre, last.input))
        => last.result = "FileNotFoundError" /\ last.path = <<>> /\ fs = last.pre

C4_Witness ==
    /\ last.op = "dec" /\ ~Exists(last.pre, last.input)
    /\ last.folder = <<OutDir, DeepDir>> /\ ~Exists(last.pre, <<OutDir>>)
    /\ last.result = "FileNotFoundError"

\* C5: decrypt_file on the file encrypt_file produced under W1, with a
\* password W2 # W1 (the output folder being one that can be ensured),
\* raises the authentication error, returns no path, and creates or changes
\* no file.
C5_WrongPassword ==
    [][(/\ Called
        /\ last.op = "enc" /\ last.result = "ok"
        /\ last'.op = "dec" /\ last'.input = last.path /\ last'.pw # last.pw
        /\ MakedirsError(fs, last'.folder) = "none")
       => /\ last'.result = "InvalidToken"
          /\ last'.path = <<>>
          /\ FilesOf(fs') = FilesOf(fs)]_vars

C5_Witness ==
    /\ nops = 2 /\ last.op = "dec" /\ last.result = "InvalidToken"
    /\ last.input = <<OutDir, DeepDir, EncryptName(NameA)>>
    /\ last.folder = <<InDir>>
    /\ last.pre[last.input].key # derive_key_from_password(last.pw)
    /\ Exists(last.pre, DecryptOutput(last.input, last.folder))

\* C6: encrypt_file on a path that is not an existing regular file (missing,
\* or a directory) raises the not-found error before it creates anything.
C6_RegularFileRequired ==
    (last.op = "enc" /\ ~IsFile(last.pre, last.input))
        => last.result = "FileNotFoundError" /\ fs = last.pre

\* C7: the menu loop.  A choice of '1' or '2' is followed by the prompts for
\* input path, output folder and password in that order and then by the
\* call; after the call, whatever its outcome, and after an invalid choice,
\* the loop is back at the menu; it ends only on choice '3'.
C7_Loop ==
    [][/\ (pc = "menu" /\ pc' = "ask_input")
              => choice' \in {<<"1">>, <<"2">>} /\ UNCHANGED <<fs, nops>>
       /\ (pc = "menu" /\ choice' \notin {<<"1">>, <<"2">>, <<"3">>}) => pc' = "menu"
       /\ pc = "ask_input" => pc' = "ask_folder" /\ UNCHANGED <<fs, nops, choice>>
       /\ pc = "ask_folder"
              => pc' = "ask_password" /\ UNCHANGED <<fs, nops, choice, input_file>>
       /\ pc = "ask_password"
              => /\ pc' = "call"
                 /\ UNCHANGED <<fs, nops, choice, input_file, output_folder>>
       /\ pc = "call"
              => /\ pc' = "menu"
                 /\ Called
                 /\ last'.op = (IF choice = <<"1">> THEN "enc" ELSE "dec")
                 /\ last'.input = ParsePath(input_file)
                 /\ last'.folder = ParsePath(output_folder)
                 /\ last'.pw = password
       /\ pc' = "exit" => pc = "menu" /\ choice' = <<"3">>
       /\ pc # "exit"]_vars

C7_Witness ==
    /\ pc = "menu" /\ nops = 2
    /\ last.op = "dec" /\ last.result \in {"InvalidToken", "LZMAError"}

\* C8: re-running.  encrypt_file called again with the same arguments ends
\* the same way, names the same output path and leaves the set of paths as
\* the first call left it; decrypt_file called again with the same wrong
\* password fails the same way and changes nothing.
C8_Rerun ==
    [][(Called /\ SameArgs(last, last'))
       => /\ last.op = "enc"
              => /\ last'.result = last.result
                 /\ last'.path = last.path
                 /\ DOMAIN fs' = DOMAIN fs
          /\ (last.op = "dec" /\ last.result = "InvalidToken")
              => last'.result = "InvalidToken" /\ fs' = fs]_vars

C8_Witness ==
    /\ nops = 2 /\ last.op = "enc" /\ last.result = "ok"
    /\ last.input = <<InDir, NameA>> /\ last.folder = <<OutDir, DeepDir>>
    /\ Exists(last.pre, last.path)
    /\ last.pre[last.path].key = derive_key_from_password(last.pw)
    /\ last.pre[last.path] # fs[last.path]

\* C9: when the token opens under the password but what it holds is not a
\* compressed stream, decrypt_file raises the corrupt-data error, returns no
\* path, creates no file and leaves every file with its previous content.
C9_WriteAfterDecompress ==
    (/\ last.op = "dec"
     /\ IsFile(last.pre, last.input)
     /\ MakedirsError(last.pre, last.folder) = "none"
     /\ last.pre[last.input].t = "tok"
     /\ last.pre[last.input].key = derive_key_from_password(last.pw)
     /\ last.pre[last.input].of.t # "xz")
        => /\ last.result = "LZMAError"
           /\ last.path = <<>>
           /\ FilesOf(fs) = FilesOf(last.pre)

C9_Witness ==
    /\ last.op = "dec" /\ last.result = "LZMAError"
    /\ IsFile(last.pre, DecryptOutput(last.input, last.folder))
    /\ DecryptOutput(last.input, last.folder) # last.input

\* C10: file-name round trip.  For every base name N, decrypt_file applied
\* to the name encrypt_file gave N's output derives N again.
C10_NameRoundTrip == nmOp = "encdec" => nmOut = nm

====
